---- MODULE Spec2Model ----
(***************************************************************************)
(* A model of the grid library of AdventOfCode-rs (src/src/grid/mod.rs):   *)
(* the Grid<T> container, Point, Direction, Neighbor, the adjacency        *)
(* functions and print_grid.                                               *)
(*                                                                         *)
(* Vectors are TLA+ sequences; the code's indices are 0-based, so the      *)
(* element at index i of a vector v is v[i + 1].                           *)
(***************************************************************************)
EXTENDS Integers, Sequences, FiniteSets, TLC

\* ------------------------------------------------------------------ bounds
\* The largest number of rows and the longest row of a constructed input.
MaxH == 3
MaxW == 3
\* The width of usize in the model (64 in the code's targets).
UsizeBits == 4
\* The number of changes the model follows a Grid through.
MaxMutations == 1
\* The width of the integer type T of the math functions in the model (the
\* tests use u32, i64 and u64).
MathBits == 4

USIZE_MAX == (2 ^ UsizeBits) - 1

\* The largest value of T.
T_MAX == (2 ^ MathBits) - 1

\* ------------------------------------------------------- Option and Result
None == [kind |-> "none"]
Some(v) == [kind |-> "some", val |-> v]
Ok(v) == [kind |-> "ok", val |-> v]
Err(msg) == [kind |-> "err", msg |-> msg]
\* A panic: the fatal failure of a call (index out of range, or an
\* arithmetic overflow in a build with overflow checks).
Panic == [kind |-> "panic"]

\* Vec::get / slice::get: the element at index i, or None.
VecGet(v, i) == IF i < Len(v) THEN Some(v[i + 1]) ELSE None

\* v[i]: the element at index i, or a panic.
VecIndex(v, i) == IF i < Len(v) THEN Some(v[i + 1]) ELSE Panic

\* ------------------------------------------------------------------- Point
Point(x, y) == [x |-> x, y |-> y]

\* usize::cmp
usize_cmp(a, b) == IF a < b THEN "Less" ELSE IF a = b THEN "Equal" ELSE "Greater"

\* #[derive(Ord)]: the fields are compared in the order of their declaration,
\* x and then y; the first that differs decides.
cmp(self, other) ==
    LET c == usize_cmp(self.x, other.x)
    IN  IF c = "Equal" THEN usize_cmp(self.y, other.y) ELSE c

\* A comparison that looks at y before x.
partial_cmp_y_first(self, other) ==
    LET c == Some(usize_cmp(self.y, other.y))
    IN  IF c = Some("Equal") THEN Some(usize_cmp(self.x, other.x)) ELSE c

\* #[derive(PartialOrd)]: likewise, field by field in the order of declaration.
partial_cmp(self, other) ==
    LET c == Some(usize_cmp(self.x, other.x))
    IN  IF c = Some("Equal") THEN Some(usize_cmp(self.y, other.y)) ELSE c

\* self < other, the operator that PartialOrd provides.
lt(self, other) == partial_cmp(self, other) = Some("Less")

\* ------------------------------------------------------------------- Grid
\* A Grid<T> is its field 0, a Vec<Vec<T>>: a sequence of rows.
height(g) == Len(g)

width(g) == IF Len(g) = 0 THEN 0 ELSE Len(g[1])

get(g, position) ==
    LET row == VecGet(g, position.y)
    IN  IF row.kind = "none" THEN None ELSE VecGet(row.val, position.x)

\* get_mut finds the cell as get does; the caller writes through the
\* reference it returns (see GetMutWrite).
get_mut(g, position) ==
    LET row == VecGet(g, position.y)
    IN  IF row.kind = "none" THEN None ELSE VecGet(row.val, position.x)

\* &self.0[point.y][point.x]
index(g, point) ==
    LET row == VecIndex(g, point.y)
    IN  IF row.kind = "panic" THEN Panic ELSE VecIndex(row.val, point.x)

\* &mut self.0[point.y][point.x]
index_mut(g, point) ==
    LET row == VecIndex(g, point.y)
    IN  IF row.kind = "panic" THEN Panic ELSE VecIndex(row.val, point.x)

\* A write that takes x for the row and y for the column.
Store_transposed(g, point, v) ==
    IF point.x < Len(g) /\ point.y < Len(g[point.x + 1])
    THEN [g EXCEPT ![point.x + 1][point.y + 1] = v]
    ELSE g

\* The write through a &mut T that refers to the cell at point.
Store(g, point, v) == [g EXCEPT ![point.y + 1][point.x + 1] = v]

\* The loop of try_from, having visited the first i rows.
RECURSIVE try_from_loop(_, _, _)
try_from_loop(data, i, row_len) ==
    IF i = Len(data) THEN Ok(data)
    ELSE IF row_len.kind = "none"
         THEN try_from_loop(data, i + 1, Some(Len(data[i + 1])))
    ELSE IF row_len.val # Len(data[i + 1])
         THEN Err("Rows must be the same length")
    ELSE try_from_loop(data, i + 1, row_len)

\* A try_from that compares the first two rows only.
try_from_first_two(data) ==
    IF Len(data) >= 2 /\ Len(data[1]) # Len(data[2])
    THEN Err("Rows must be the same length")
    ELSE Ok(data)

try_from(data) == try_from_loop(data, 0, None)

\* ------------------------------------------------------------------ inputs
\* The number of cells in the rows before row i (1-based) of a shape.
RECURSIVE CellsBefore(_, _)
CellsBefore(lens, i) == IF i <= 1 THEN 0 ELSE lens[i - 1] + CellsBefore(lens, i - 1)

\* Rows of the given lengths holding 1, 2, 3, ... in row-major order, as the
\* fixtures of the tests do (vec![vec![1, 2, 3], vec![4, 5, 6], ...]).
Fill(lens) ==
    [i \in 1 .. Len(lens) |-> [j \in 1 .. lens[i] |-> CellsBefore(lens, i) + j]]

Shapes == UNION {[1 .. h -> 0 .. MaxW] : h \in 0 .. MaxH}

\* The inputs of construction: rectangular and ragged.
Inputs == {Fill(lens) : lens \in Shapes}

\* The coordinates a caller passes: inside a grid, just outside one, and the
\* largest usize.
Coords == (0 .. MaxW) \cup (0 .. MaxH) \cup {USIZE_MAX}

Points == {Point(x, y) : x \in Coords, y \in Coords}

\* The length of the longest row of a Grid (0 without rows).
LongestRow(g) ==
    LET lens == {Len(g[i]) : i \in 1 .. Len(g)}
    IN  IF lens = {} THEN 0 ELSE CHOOSE m \in lens : \A l \in lens : l <= m

\* The positions a caller of a Grid passes: every cell of the Grid, the
\* positions one past its last row and one past its longest row, and the
\* largest usize in either component.
PointsAround(g) ==
    {Point(x, y) : x \in (0 .. LongestRow(g)) \cup {USIZE_MAX},
                   y \in (0 .. height(g)) \cup {USIZE_MAX}}

\* The value a caller writes into a cell; no input holds it.
NewValues == {0}

\* ------------------------------------------------------------ usize arithmetic
\* c.checked_sub(1): c - 1, or None when c is 0.
checked_sub_1(c) == IF c >= 1 THEN Some(c - 1) ELSE None

\* The usize c + 1.  When c is the largest usize the addition overflows: a
\* build with overflow checks (debug) panics, one without (release) wraps
\* around to 0.
add_1(c, checks) ==
    IF c = USIZE_MAX THEN (IF checks THEN Panic ELSE Some((c + 1) % (USIZE_MAX + 1)))
    ELSE Some(c + 1)

\* What follows a coordinate computation: its None (and_then) or its panic
\* ends the call, and otherwise the rest is evaluated.
AndThen(computed, rest) == IF computed.kind = "some" THEN rest ELSE computed

\* The two builds of the code: with overflow checks (TRUE, the debug
\* profile) and without (FALSE, the release profile).  A call's record does
\* not name the build; what the call returned shows it.
OverflowChecks == BOOLEAN

\* -------------------------------------------------------------------- math
\* (src/src/math/mod.rs)  The arithmetic of T: a / b and a % b panic when b is
\* zero; a * b overflows when the product is above T::MAX, where a build with
\* overflow checks panics and one without keeps the low bits.
div(a, b) == IF b = 0 THEN Panic ELSE Some(a \div b)

rem(a, b) == IF b = 0 THEN Panic ELSE Some(a % b)

mul(a, b, checks) ==
    IF a * b > T_MAX THEN (IF checks THEN Panic ELSE Some((a * b) % (T_MAX + 1)))
    ELSE Some(a * b)

\* while b != zero { let temp = b; b = a % b; a = temp; } a
RECURSIVE gcd_loop(_, _)
gcd_loop(a, b) == IF b # 0 THEN gcd_loop(b, rem(a, b).val) ELSE a

\* The swap that makes a >= b, and then the loop.
greatest_common_divisor(a, b) == IF b > a THEN gcd_loop(b, a) ELSE gcd_loop(a, b)

\* A least common multiple that multiplies before it divides.
least_common_multiple_product_first(a, b, checks) ==
    AndThen(mul(a, b, checks),
        div(mul(a, b, checks).val, greatest_common_divisor(a, b)))

\* a / greatest_common_divisor(a, b) * b: the division first, then the
\* multiplication.
least_common_multiple(a, b, checks) ==
    AndThen(div(a, greatest_common_divisor(a, b)),
        mul(div(a, greatest_common_divisor(a, b)).val, b, checks))

\* --------------------------------------------------- Direction and Neighbor
Orthogonal == <<"Up", "Down", "Left", "Right">>

Diagonal == <<"UpperLeft", "UpperRight", "LowerLeft", "LowerRight">>

Direction == {Orthogonal[i] : i \in 1 .. 4} \cup {Diagonal[i] : i \in 1 .. 4}

Neighbor(direction, position) == [direction |-> direction, position |-> position]

\* grid.get(Point::new(nx, ny)).map(|_| Neighbor::new(direction, Point::new(nx, ny)))
Probe(g, direction, nx, ny) ==
    IF get(g, Point(nx, ny)).kind = "some"
    THEN Some(Neighbor(direction, Point(nx, ny)))
    ELSE None

\* Each arm computes the coordinates of its candidate in the order the code
\* does; the first computation that fails ends the call.
neighbor_in_direction(g, direction, position, checks) ==
    LET x == position.x
        y == position.y
    IN  CASE direction = "Up" ->
                AndThen(checked_sub_1(y),
                    Probe(g, direction, x, checked_sub_1(y).val))
          [] direction = "Down" ->
                AndThen(add_1(y, checks),
                    Probe(g, direction, x, add_1(y, checks).val))
          [] direction = "Left" ->
                AndThen(checked_sub_1(x),
                    Probe(g, direction, checked_sub_1(x).val, y))
          [] direction = "Right" ->
                AndThen(add_1(x, checks),
                    Probe(g, direction, add_1(x, checks).val, y))
          [] direction = "UpperLeft" ->
                AndThen(checked_sub_1(y),
                    AndThen(checked_sub_1(x),
                        Probe(g, direction, checked_sub_1(x).val, checked_sub_1(y).val)))
          [] direction = "UpperRight" ->
                AndThen(checked_sub_1(y),
                    AndThen(add_1(x, checks),
                        Probe(g, direction, add_1(x, checks).val, checked_sub_1(y).val)))
          [] direction = "LowerLeft" ->
                AndThen(checked_sub_1(x),
                    AndThen(add_1(y, checks),
                        Probe(g, direction, checked_sub_1(x).val, add_1(y, checks).val)))
          [] direction = "LowerRight" ->
                AndThen(add_1(x, checks),
                    AndThen(add_1(y, checks),
                        Probe(g, direction, add_1(x, checks).val, add_1(y, checks).val)))

\* A next whose LowerLeft arm names Direction::LowerRight in the Neighbor it
\* builds.
next_mislabelled(self, g, checks) ==
    LET n == neighbor_in_direction(g, self.direction, self.position, checks)
    IN  IF self.direction = "LowerLeft" /\ n.kind = "some"
        THEN Some(Neighbor("LowerRight", n.val.position))
        ELSE n

\* Neighbor::next: the match of its own, arm by arm.
next(self, g, checks) ==
    LET x == self.position.x
        y == self.position.y
    IN  CASE self.direction = "Right" ->
                AndThen(add_1(x, checks),
                    Probe(g, "Right", add_1(x, checks).val, y))
          [] self.direction = "Left" ->
                AndThen(checked_sub_1(x),
                    Probe(g, "Left", checked_sub_1(x).val, y))
          [] self.direction = "Up" ->
                AndThen(checked_sub_1(y),
                    Probe(g, "Up", x, checked_sub_1(y).val))
          [] self.direction = "Down" ->
                AndThen(add_1(y, checks),
                    Probe(g, "Down", x, add_1(y, checks).val))
          [] self.direction = "UpperRight" ->
                AndThen(checked_sub_1(y),
                    AndThen(add_1(x, checks),
                        Probe(g, "UpperRight", add_1(x, checks).val, checked_sub_1(y).val)))
          [] self.direction = "UpperLeft" ->
                AndThen(checked_sub_1(y),
                    AndThen(checked_sub_1(x),
                        Probe(g, "UpperLeft", checked_sub_1(x).val, checked_sub_1(y).val)))
          [] self.direction = "LowerRight" ->
                AndThen(add_1(x, checks),
                    AndThen(add_1(y, checks),
                        Probe(g, "LowerRight", add_1(x, checks).val, add_1(y, checks).val)))
          [] self.direction = "LowerLeft" ->
                AndThen(checked_sub_1(x),
                    AndThen(add_1(y, checks),
                        Probe(g, "LowerLeft", checked_sub_1(x).val, add_1(y, checks).val)))

\* A neighbors that asks about the diagonals whatever the flag says.
directions_always_diagonal(include_diagonals) == Orthogonal \o Diagonal

\* The directions neighbors asks about, in the order it asks.
directions(include_diagonals) ==
    IF include_diagonals THEN Orthogonal \o Diagonal ELSE Orthogonal

\* directions.into_iter().filter_map(...).collect(), having asked about the
\* first i directions and collected acc; a panic of one call ends it.
RECURSIVE filter_map_collect(_, _, _, _, _, _)
filter_map_collect(g, dirs, i, position, checks, acc) ==
    IF i = Len(dirs) THEN Ok(acc)
    ELSE LET n == neighbor_in_direction(g, dirs[i + 1], position, checks)
         IN  IF n.kind = "panic" THEN Panic
             ELSE filter_map_collect(g, dirs, i + 1, position, checks,
                      IF n.kind = "some" THEN Append(acc, n.val) ELSE acc)

neighbors(g, position, include_diagonals, checks) ==
    filter_map_collect(g, directions(include_diagonals), 0, position, checks, <<>>)

\* ---------------------------------------------------------------- print_grid
\* The text of a usize as Display writes it: its decimal digits.
DigitChar == <<"0", "1", "2", "3", "4", "5", "6", "7", "8", "9">>

RECURSIVE DisplayUsize(_)
DisplayUsize(n) ==
    IF n < 10 THEN <<DigitChar[n + 1]>>
    ELSE DisplayUsize(n \div 10) \o <<DigitChar[(n % 10) + 1]>>

\* The mappers a caller passes: |x| *x, as the test does, and
\* |x| format!("[{}]", x).
Mappers == {"identity", "bracket"}

\* The text of mapper(col) that write!(writer, "{}", ...) writes.
Display(mapper, col) ==
    IF mapper = "identity" THEN DisplayUsize(col)
    ELSE <<"[">> \o DisplayUsize(col) \o <<"]">>

\* A sink: the text it holds and the number of writes it still takes before
\* it fails (-1: it never fails, as a Vec<u8>).
Sink(budget) == [buf |-> <<>>, budget |-> budget]

Sinks == {Sink(b) : b \in -1 .. (MaxW + 1)}

\* One write!/writeln! to the sink: the sink afterwards, or an io::Error.
write(w, text) ==
    IF w.budget = 0 THEN Err("io")
    ELSE Ok([buf |-> w.buf \o text,
             budget |-> IF w.budget > 0 THEN w.budget - 1 ELSE w.budget])

\* for col in row { write!(writer, "{}", mapper(col))?; }, before column j.
RECURSIVE print_cols(_, _, _, _)
print_cols(row, j, mapper, w) ==
    IF j = Len(row) THEN [ret |-> Ok(<<>>), w |-> w]
    ELSE LET r == write(w, Display(mapper, row[j + 1]))
         IN  IF r.kind = "err" THEN [ret |-> r, w |-> w]
             ELSE print_cols(row, j + 1, mapper, r.val)

\* for row in grid { ...; writeln!(writer)?; } Ok(()), before row i.
RECURSIVE print_rows(_, _, _, _)
print_rows(g, i, mapper, w) ==
    IF i = Len(g) THEN [ret |-> Ok(<<>>), w |-> w]
    ELSE LET c == print_cols(g[i + 1], 0, mapper, w)
         IN  IF c.ret.kind = "err" THEN c
             ELSE LET r == write(c.w, <<"\n">>)
                  IN  IF r.kind = "err" THEN [ret |-> r, w |-> c.w]
                      ELSE print_rows(g, i + 1, mapper, r.val)

\* A print_grid that ends the rows but the last with a line terminator.
print_grid_joined(g, mapper, writer) ==
    LET r == print_rows(g, 0, mapper, writer)
    IN  IF r.ret.kind = "ok" /\ Len(r.w.buf) > 0
        THEN [r EXCEPT !.w.buf = SubSeq(r.w.buf, 1, Len(r.w.buf) - 1)]
        ELSE r

print_grid(g, mapper, writer) == print_rows(g, 0, mapper, writer)

\* ------------------------------------------------------- access to the rows
\* What a caller does with the &mut Vec<T> of a row, which DerefMut and the
\* mutable iterator hand out: Vec::push, Vec::pop and a write to every cell
\* (for val in row { *val = v }).
RowOps ==
    {[f |-> "push", v |-> v] : v \in NewValues}
        \cup {[f |-> "pop"]}
        \cup {[f |-> "fill", v |-> v] : v \in NewValues}

\* The row after the operation.
RowApply(row, rop) ==
    CASE rop.f = "push" -> Append(row, rop.v)
      [] rop.f = "pop" -> IF Len(row) = 0 THEN row ELSE SubSeq(row, 1, Len(row) - 1)
      [] rop.f = "fill" -> [j \in 1 .. Len(row) |-> rop.v]

\* grid.deref_mut()[i] followed by the operation on that row: the rows
\* afterwards and whether the statement panicked.
deref_mut_row(g, i, rop) ==
    LET row == VecIndex(g, i)
    IN  IF row.kind = "panic" THEN [rows |-> g, ret |-> Panic]
        ELSE [rows |-> [g EXCEPT ![i + 1] = RowApply(row.val, rop)], ret |-> Ok(i)]

\* for row in &mut grid { op(row) }, left after k rows (a break) or at the
\* end: rows 0 .. i-1 have been visited.
RECURSIVE iter_mut_loop(_, _, _, _)
iter_mut_loop(g, i, k, rop) ==
    IF i = k \/ i = Len(g) THEN [rows |-> g, ret |-> Ok(i)]
    ELSE iter_mut_loop([g EXCEPT ![i + 1] = RowApply(g[i + 1], rop)], i + 1, k, rop)

iter_mut(g, k, rop) == iter_mut_loop(g, 0, k, rop)

\* ------------------------------------------------------------------- state
VARIABLES
    has_grid,   \* whether a Grid has been constructed
    grid,       \* the Grid's field 0 (<<>> when there is none)
    nmut,       \* how many calls have changed the Grid since its construction
    call        \* the last call: its name, its arguments and what it returned

vars == <<has_grid, grid, nmut, call>>

Init ==
    /\ has_grid = FALSE
    /\ grid = <<>>
    /\ nmut = 0
    /\ call = [op |-> "init"]

\* The calls that construct or change a Grid; the others only read it.
Writers == {"try_from", "get_mut", "index_mut", "deref_mut", "iter_mut"}

\* A call that leaves the Grid as it found it (a read, or a mutator that
\* found no cell to write) is followed by what could have been called in
\* its place: the model makes every call from the state that the
\* constructor or the last change of the Grid left (a walk continues from
\* the Neighbor the last call returned).  A panic ends the thread: no call
\* follows it.  The model follows a Grid through MaxMutations changes.
AtRest ==
    /\ has_grid
    /\ call.op \in Writers
    /\ call.ret.kind # "panic"
    /\ call.changed
    /\ nmut <= MaxMutations

\* A change needs the Grid by &mut.  After MaxMutations changes the model
\* makes one more, whose outcome it records and follows no further.
CanMutate == AtRest

\* The adjacency functions discard the cell they find
\* (grid.get(..).map(|_| ..)): what they return depends on the lengths of
\* the rows and on no cell's value, so after a write of a value they return
\* what they returned before it.  The model calls them from the states that
\* the constructor or a change of a row's length left.
Reshaped ==
    \/ call.op = "try_from"
    \/ call.op \in {"deref_mut", "iter_mut"} /\ call.rop.f \in {"push", "pop"}

Changed(rows) == IF rows = grid THEN nmut ELSE nmut + 1

\* Grid::try_from(data)
Construct ==
    /\ call.op = "init"
    /\ \E data \in Inputs :
        LET r == try_from(data)
        IN  /\ has_grid' = (r.kind = "ok")
            /\ grid' = IF r.kind = "ok" THEN r.val ELSE <<>>
            /\ call' = [op |-> "try_from", data |-> data, ret |-> r,
                     changed |-> (r.kind = "ok")]
    /\ UNCHANGED nmut

\* grid.get(position); the record keeps the call it follows.
Get ==
    /\ AtRest
    /\ \E position \in PointsAround(grid) :
        call' = [op |-> "get", position |-> position, ret |-> get(grid, position),
                 after |-> call]
    /\ UNCHANGED <<has_grid, grid, nmut>>

\* if let Some(val) = grid.get_mut(position) { *val = v }
GetMutWrite ==
    /\ CanMutate
    /\ \E position \in PointsAround(grid), v \in NewValues :
        LET r == get_mut(grid, position)
            rows == IF r.kind = "some" THEN Store(grid, position, v) ELSE grid
        IN  /\ grid' = rows
            /\ nmut' = Changed(rows)
            /\ call' = [op |-> "get_mut", position |-> position, v |-> v, ret |-> r,
                        changed |-> (rows # grid)]
    /\ UNCHANGED has_grid

\* grid[point]; the record keeps the call it follows.
IndexRead ==
    /\ AtRest
    /\ \E point \in PointsAround(grid) :
        call' = [op |-> "index", position |-> point, ret |-> index(grid, point),
                 after |-> call]
    /\ UNCHANGED <<has_grid, grid, nmut>>

\* grid[point] = v
IndexAssign ==
    /\ CanMutate
    /\ \E point \in PointsAround(grid), v \in NewValues :
        LET r == index_mut(grid, point)
            rows == IF r.kind = "some" THEN Store(grid, point, v) ELSE grid
        IN  /\ grid' = rows
            /\ nmut' = Changed(rows)
            /\ call' = [op |-> "index_mut", position |-> point, v |-> v, ret |-> r,
                        changed |-> (rows # grid)]
    /\ UNCHANGED has_grid

\* An operation on grid[i], the row that DerefMut exposes as a &mut Vec<T>.
DerefMutRow ==
    /\ CanMutate
    /\ \E i \in 0 .. MaxH, rop \in RowOps :
        LET r == deref_mut_row(grid, i, rop)
        IN  /\ grid' = r.rows
            /\ nmut' = Changed(r.rows)
            /\ call' = [op |-> "deref_mut", i |-> i, rop |-> rop, ret |-> r.ret,
                        changed |-> (r.rows # grid)]
    /\ UNCHANGED has_grid

\* for row in &mut grid { ... }: the same operation on every row, or on the
\* first row alone (a break after it).
IterMut ==
    /\ CanMutate
    /\ \E k \in {1, height(grid)}, rop \in RowOps :
        LET r == iter_mut(grid, k, rop)
        IN  /\ grid' = r.rows
            /\ nmut' = Changed(r.rows)
            /\ call' = [op |-> "iter_mut", k |-> k, rop |-> rop, ret |-> r.ret,
                        changed |-> (r.rows # grid)]
    /\ UNCHANGED has_grid

\* neighbor_in_direction(&grid, direction, position)
NeighborInDirection ==
    /\ AtRest
    /\ Reshaped
    /\ \E direction \in Direction, position \in PointsAround(grid) :
        \E ret \in {neighbor_in_direction(grid, direction, position, checks) :
                        checks \in OverflowChecks} :
            call' = [op |-> "neighbor_in_direction", direction |-> direction,
                     position |-> position, ret |-> ret]
    /\ UNCHANGED <<has_grid, grid, nmut>>

\* neighbors(&grid, position, include_diagonals)
Neighbors ==
    /\ AtRest
    /\ Reshaped
    /\ \E position \in PointsAround(grid), include_diagonals \in BOOLEAN :
        \E ret \in {neighbors(grid, position, include_diagonals, checks) :
                        checks \in OverflowChecks} :
            call' = [op |-> "neighbors", position |-> position,
                     include_diagonals |-> include_diagonals, ret |-> ret]
    /\ UNCHANGED <<has_grid, grid, nmut>>

\* Neighbor::new(direction, position).next(&grid): the first step of a walk.
\* The record keeps where the walk started and how many steps it has made.
NeighborNextFirst ==
    /\ AtRest
    /\ Reshaped
    /\ \E direction \in Direction, position \in PointsAround(grid) :
        \E ret \in {next(Neighbor(direction, position), grid, checks) :
                        checks \in OverflowChecks} :
            call' = [op |-> "next", start |-> Neighbor(direction, position),
                     steps |-> 1, self |-> Neighbor(direction, position),
                     ret |-> ret]
    /\ UNCHANGED <<has_grid, grid, nmut>>

\* n.next(&grid) of the Neighbor n that the last call returned, by
\* neighbor_in_direction or by next: the walk goes on.
NeighborNextAgain ==
    /\ has_grid
    /\ call.op \in {"neighbor_in_direction", "next"}
    /\ call.ret.kind = "some"
    /\ \E ret \in {next(call.ret.val, grid, checks) : checks \in OverflowChecks} :
        call' = [op |-> "next",
                 start |-> IF call.op = "next" THEN call.start ELSE call.ret.val,
                 steps |-> IF call.op = "next" THEN call.steps + 1 ELSE 1,
                 self |-> call.ret.val,
                 ret |-> ret]
    /\ UNCHANGED <<has_grid, grid, nmut>>

\* print_grid(&grid, mapper, &mut writer)
PrintGrid ==
    /\ AtRest
    /\ \E mapper \in Mappers, writer \in Sinks :
        LET r == print_grid(grid, mapper, writer)
        IN  call' = [op |-> "print_grid", mapper |-> mapper, writer |-> writer,
                     ret |-> r.ret, out |-> r.w.buf]
    /\ UNCHANGED <<has_grid, grid, nmut>>

Next ==
    \/ Construct
    \/ Get
    \/ GetMutWrite
    \/ IndexRead
    \/ IndexAssign
    \/ DerefMutRow
    \/ IterMut
    \/ NeighborInDirection
    \/ Neighbors
    \/ NeighborNextFirst
    \/ NeighborNextAgain
    \/ PrintGrid

Spec == Init /\ [][Next]_vars

\* ------------------------------------------------------ comparing two Points
\* Two Points a caller holds; there is no Grid.
OrdInit ==
    /\ has_grid = FALSE
    /\ grid = <<>>
    /\ nmut = 0
    /\ \E p \in Points, q \in Points : call = [op |-> "points", self |-> p, other |-> q]

\* p.cmp(&q), as a sort calls it.
PointCmp ==
    /\ call.op = "points"
    /\ call' = [op |-> "cmp", self |-> call.self, other |-> call.other,
                ret |-> cmp(call.self, call.other)]
    /\ UNCHANGED <<has_grid, grid, nmut>>

\* p < q
PointLt ==
    /\ call.op = "points"
    /\ call' = [op |-> "lt", self |-> call.self, other |-> call.other,
                ret |-> lt(call.self, call.other)]
    /\ UNCHANGED <<has_grid, grid, nmut>>

OrdNext ==
    \/ PointCmp
    \/ PointLt

OrdSpec == OrdInit /\ [][OrdNext]_vars

\* ------------------------------------------------------- the math functions
\* Two values of T a caller holds; there is no Grid.
MathInit ==
    /\ has_grid = FALSE
    /\ grid = <<>>
    /\ nmut = 0
    /\ \E a \in 0 .. T_MAX, b \in 0 .. T_MAX : call = [op |-> "operands", a |-> a, b |-> b]

\* greatest_common_divisor(a, b)
GreatestCommonDivisor ==
    /\ call.op = "operands"
    /\ call' = [op |-> "greatest_common_divisor", a |-> call.a, b |-> call.b,
                ret |-> Some(greatest_common_divisor(call.a, call.b))]
    /\ UNCHANGED <<has_grid, grid, nmut>>

\* least_common_multiple(a, b)
LeastCommonMultiple ==
    /\ call.op = "operands"
    /\ \E ret \in {least_common_multiple(call.a, call.b, checks) :
                      checks \in OverflowChecks} :
        call' = [op |-> "least_common_multiple", a |-> call.a, b |-> call.b,
                 ret |-> ret]
    /\ UNCHANGED <<has_grid, grid, nmut>>

MathNext ==
    \/ GreatestCommonDivisor
    \/ LeastCommonMultiple

MathSpec == MathInit /\ [][MathNext]_vars

\* ================================================================== claims
\* Every row of the rows is as long as every other.
Rectangular(rows) ==
    \A i, j \in 1 .. Len(rows) : Len(rows[i]) = Len(rows[j])

\* The point lies inside the dimensions the Grid reports.
InDimensions(g, position) == position.y < height(g) /\ position.x < width(g)

\* The offset (dy, dx) of each direction, as the specification tabulates it.
Delta(direction) ==
    CASE direction = "Up" -> [dy |-> -1, dx |-> 0]
      [] direction = "Down" -> [dy |-> 1, dx |-> 0]
      [] direction = "Left" -> [dy |-> 0, dx |-> -1]
      [] direction = "Right" -> [dy |-> 0, dx |-> 1]
      [] direction = "UpperLeft" -> [dy |-> -1, dx |-> -1]
      [] direction = "UpperRight" -> [dy |-> -1, dx |-> 1]
      [] direction = "LowerLeft" -> [dy |-> 1, dx |-> -1]
      [] direction = "LowerRight" -> [dy |-> 1, dx |-> 1]

\* position moved k cells in the direction, in unbounded integers.
Moved(position, direction, k) ==
    Point(position.x + k * Delta(direction).dx, position.y + k * Delta(direction).dy)

\* The order in which neighbors lists the directions.
Rank(direction) ==
    CASE direction = "Up" -> 1
      [] direction = "Down" -> 2
      [] direction = "Left" -> 3
      [] direction = "Right" -> 4
      [] direction = "UpperLeft" -> 5
      [] direction = "UpperRight" -> 6
      [] direction = "LowerLeft" -> 7
      [] direction = "LowerRight" -> 8

\* C1: try_from succeeds if and only if all rows of its input have the same
\* length (no rows at all included); on success the Grid's height is the
\* number of input rows and its width the length of the rows (0 without
\* rows); on a ragged input it returns an error and there is no Grid.
C1_TryFromContract ==
    call.op = "try_from" =>
        /\ (call.ret.kind = "ok") <=> Rectangular(call.data)
        /\ call.ret.kind = "ok" =>
            /\ has_grid
            /\ height(grid) = Len(call.data)
            /\ \A i \in 1 .. Len(call.data) : width(grid) = Len(call.data[i])
            /\ Len(call.data) = 0 => width(grid) = 0
        /\ call.ret.kind # "ok" => (call.ret.kind = "err" /\ ~has_grid)

\* A ragged input whose first two rows agree and whose third does not is
\* rejected.
C1_Witness ==
    /\ call.op = "try_from"
    /\ Len(call.data) = 3
    /\ Len(call.data[1]) = Len(call.data[2])
    /\ Len(call.data[3]) # Len(call.data[1])
    /\ call.ret.kind = "err"

\* C2: in every state reached by construction and the Grid's mutating
\* operations (get_mut writes, indexed assignment, mutable iteration over the
\* rows, mutable deref to the row slice) the Grid has no rows or rows of
\* equal length.
C2_Rectangularity == has_grid => Rectangular(grid)

\* C3: get and get_mut return a cell if and only if y < height() and
\* x < width(), and the cell is the one stored at row y, column x.
C3_GetIffInDimensions ==
    /\ call.op \in {"get", "get_mut"} =>
        (call.ret.kind = "some") <=> InDimensions(grid, call.position)
    /\ (call.op = "get" /\ call.ret.kind = "some") =>
        call.ret.val = grid[call.position.y + 1][call.position.x + 1]
    /\ (call.op = "get_mut" /\ call.ret.kind = "some") =>
        call.v = grid[call.position.y + 1][call.position.x + 1]

\* C4: neighbor_in_direction(grid, d, p) returns Neighbor(d, p + delta(d))
\* exactly when p + delta(d) has no negative component and lies inside the
\* grid's dimensions, and nothing otherwise.
C4_NeighborInDirection ==
    call.op = "neighbor_in_direction" =>
        LET c == Moved(call.position, call.direction, 1)
        IN  IF c.x >= 0 /\ c.y >= 0 /\ InDimensions(grid, c)
            THEN call.ret = Some(Neighbor(call.direction, c))
            ELSE call.ret = None

\* What neighbor_in_direction returns for each direction, in one build.
AllPresent(position, include_diagonals, checks, found) ==
    LET enabled == {d \in Direction : include_diagonals \/ Rank(d) <= 4}
        n(d) == neighbor_in_direction(grid, d, position, checks)
    IN  /\ \A k \in 1 .. Len(found) :
            /\ found[k].direction \in enabled
            /\ n(found[k].direction) = Some(found[k])
        /\ \A d \in enabled :
            n(d).kind = "some" => \E k \in 1 .. Len(found) : found[k].direction = d
        /\ \A j, k \in 1 .. Len(found) :
            j < k => Rank(found[j].direction) < Rank(found[k].direction)

\* C5: neighbors returns exactly the neighbors that neighbor_in_direction
\* yields for the enabled directions, one per direction and no others, in
\* the order Up, Down, Left, Right and then, only with include_diagonals,
\* UpperLeft, UpperRight, LowerLeft, LowerRight; without include_diagonals
\* it returns no diagonal neighbor.  (It panics exactly when one of those
\* calls of neighbor_in_direction does.)
C5_NeighborsEnumerates ==
    call.op = "neighbors" =>
        \E checks \in OverflowChecks :
            LET enabled == {d \in Direction : call.include_diagonals \/ Rank(d) <= 4}
                panics == \E d \in enabled :
                    neighbor_in_direction(grid, d, call.position, checks).kind = "panic"
            IN  IF panics THEN call.ret.kind = "panic"
                ELSE /\ call.ret.kind = "ok"
                     /\ AllPresent(call.position, call.include_diagonals, checks,
                                   call.ret.val)
                     /\ ~call.include_diagonals =>
                            \A k \in 1 .. Len(call.ret.val) :
                                Rank(call.ret.val[k].direction) <= 4

\* On the top edge, away from the corners, neighbors with diagonals lists
\* Down, Left, Right, LowerLeft, LowerRight and skips the three upward ones.
C5_Witness ==
    /\ call.op = "neighbors"
    /\ call.include_diagonals
    /\ call.position = Point(1, 0)
    /\ call.ret.kind = "ok"
    /\ Len(call.ret.val) = 5

\* The positions a call of the adjacency engine returned, each with the
\* position and the direction it was derived from.
Returned ==
    CASE call.op = "neighbor_in_direction" /\ call.ret.kind = "some" ->
            {[from |-> call.position, to |-> call.ret.val]}
      [] call.op = "next" /\ call.ret.kind = "some" ->
            {[from |-> call.self.position, to |-> call.ret.val]}
      [] call.op = "neighbors" /\ call.ret.kind = "ok" ->
            {[from |-> call.position, to |-> call.ret.val[k]] :
                k \in 1 .. Len(call.ret.val)}
      [] OTHER -> {}

\* C6: for every position with representable non-negative components, the
\* largest included, neighbor_in_direction, neighbors and Neighbor.next
\* return a value or absence: they never panic and no coordinate wraps
\* around.
C6_NoFatalErrors ==
    call.op \in {"neighbor_in_direction", "neighbors", "next"} =>
        /\ call.ret.kind # "panic"
        /\ \A r \in Returned : r.to.position = Moved(r.from, r.to.direction, 1)

\* The larger of two numbers.
Max(a, b) == IF a >= b THEN a ELSE b

\* C7: from Neighbor(Right, (0,0)) on a grid of width W >= 1, next yields
\* (1,0), ..., (W-1,0), each with direction Right, and then nothing; for any
\* direction d and start p inside the grid, the k-th step yields
\* p + k*delta(d) with direction d until the first candidate outside the
\* grid, where the walk ends with absence, after at most max(width, height)
\* steps.
C7_RayStepping ==
    (call.op = "next" /\ InDimensions(grid, call.start.position)) =>
        LET d == call.start.direction
            c == Moved(call.start.position, d, call.steps)
        IN  /\ call.self = Neighbor(d, Moved(call.start.position, d, call.steps - 1))
            /\ IF c.x >= 0 /\ c.y >= 0 /\ InDimensions(grid, c)
               THEN call.ret = Some(Neighbor(d, c))
               ELSE call.ret = None
            /\ call.steps <= Max(width(grid), height(grid))
            /\ call.start = Neighbor("Right", Point(0, 0)) =>
                /\ call.steps <= width(grid)
                /\ call.steps < width(grid) =>
                    call.ret = Some(Neighbor("Right", Point(call.steps, 0)))
                /\ call.steps = width(grid) => call.ret = None

\* C8: after a write of v at a coordinate that holds a cell, through get_mut
\* or indexed assignment, the read of that coordinate that follows it, by
\* get or by indexing, yields v.
C8_WriteThenRead ==
    (/\ call.op \in {"get", "index"}
     /\ call.after.op \in {"get_mut", "index_mut"}
     /\ call.after.ret.kind = "some"
     /\ call.after.position = call.position)
        => call.ret = Some(call.after.v)

\* get reads a cell right after get_mut wrote it.
C8_Witness ==
    /\ call.op = "get"
    /\ call.after.op = "get_mut"
    /\ call.after.ret.kind = "some"
    /\ call.after.position = call.position
    /\ call.position = Point(2, 1)
    /\ call.ret = Some(call.after.v)

\* C9: indexing by Point (read or assignment) reaches the cell get returns,
\* row y column x, for every coordinate inside the dimensions, and panics,
\* touching no cell, for every coordinate with y >= height() or
\* x >= width().
C9_IndexUnchecked ==
    /\ call.op = "index" =>
        IF InDimensions(grid, call.position)
        THEN /\ call.ret = get(grid, call.position)
             /\ call.ret = Some(grid[call.position.y + 1][call.position.x + 1])
        ELSE call.ret = Panic
    /\ call.op = "index_mut" =>
        IF InDimensions(grid, call.position)
        THEN /\ call.ret.kind = "some"
             /\ get(grid, call.position) = Some(call.v)
        ELSE call.ret = Panic /\ ~call.changed

\* The concatenation of a sequence of texts.
RECURSIVE Flatten(_)
Flatten(texts) == IF texts = <<>> THEN <<>> ELSE Head(texts) \o Flatten(Tail(texts))

\* The text of a grid: row by row from the top, each row the mapped cells
\* from the left with nothing between them, and a line terminator.
Rendered(g, mapper) ==
    Flatten([i \in 1 .. Len(g) |->
        Flatten([j \in 1 .. Len(g[i]) |-> Display(mapper, g[i][j])]) \o <<"\n">>])

\* C10: print_grid writes, for each row from the top, the mapped
\* representation of each cell from the left with no separator, and one line
\* terminator per row: h line terminators for h rows, nothing for an empty
\* grid.  (When the sink fails, print_grid returns the error and the sink
\* holds a proper prefix of that text.)
C10_PrintGrid ==
    call.op = "print_grid" =>
        LET text == Rendered(grid, call.mapper)
        IN  /\ call.writer.budget = -1 => call.ret.kind = "ok"
            /\ call.ret.kind = "ok" =>
                /\ call.out = text
                /\ Cardinality({k \in 1 .. Len(call.out) : call.out[k] = "\n"})
                       = height(grid)
                /\ height(grid) = 0 => call.out = <<>>
            /\ call.ret.kind # "ok" =>
                /\ call.ret.kind = "err"
                /\ Len(call.out) < Len(text)
                /\ call.out = SubSeq(text, 1, Len(call.out))

\* The 3x3 grid of 1..9 with the identity mapper is written as
\* "123\n456\n789\n".
C10_Witness ==
    /\ call.op = "print_grid"
    /\ grid = <<<<1, 2, 3>>, <<4, 5, 6>>, <<7, 8, 9>>>>
    /\ call.mapper = "identity"
    /\ call.ret.kind = "ok"
    /\ call.out = <<"1", "2", "3", "\n", "4", "5", "6", "\n", "7", "8", "9", "\n">>

\* The four corners of the dimensions the Grid reports.
Corners(g) ==
    {Point(x, y) : x \in {0, width(g) - 1}, y \in {0, height(g) - 1}}

\* The neighbors of a list whose direction is diagonal.
DiagonalOnes(found) == {k \in 1 .. Len(found) : Rank(found[k].direction) > 4}

\* C11: on a grid of width >= 2 and height >= 2, neighbors at each of the
\* four corners returns exactly 2 neighbors, both orthogonal, without
\* diagonals, and with diagonals those 2 and exactly 1 diagonal neighbor.
C11_CornerProperty ==
    (/\ call.op = "neighbors"
     /\ width(grid) >= 2
     /\ height(grid) >= 2
     /\ call.position \in Corners(grid))
        => /\ call.ret.kind = "ok"
           /\ ~call.include_diagonals =>
                /\ Len(call.ret.val) = 2
                /\ DiagonalOnes(call.ret.val) = {}
           /\ call.include_diagonals =>
                /\ Len(call.ret.val) = 3
                /\ DiagonalOnes(call.ret.val) = {3}
                /\ \A checks \in OverflowChecks :
                    Ok(SubSeq(call.ret.val, 1, 2))
                        = neighbors(grid, call.position, FALSE, checks)

\* The coordinates that touch no edge of the dimensions the Grid reports.
Interior(g) ==
    {Point(x, y) : x \in 1 .. (width(g) - 2), y \in 1 .. (height(g) - 2)}

\* C12: on a grid of width >= 3 and height >= 3, neighbors at a coordinate
\* that touches no edge returns exactly 8 results with diagonals and exactly
\* 4 without.
C12_InteriorProperty ==
    (/\ call.op = "neighbors"
     /\ width(grid) >= 3
     /\ height(grid) >= 3
     /\ call.position \in Interior(grid))
        => /\ call.ret.kind = "ok"
           /\ Len(call.ret.val) = (IF call.include_diagonals THEN 8 ELSE 4)

\* p comes before q when x is compared first and y second.
BeforeXThenY(p, q) == p.x < q.x \/ (p.x = q.x /\ p.y < q.y)

\* p comes before q when y is compared first and x second.
BeforeYThenX(p, q) == p.y < q.y \/ (p.y = q.y /\ p.x < q.x)

\* C13 (as stated): coordinates are totally ordered lexicographically by y
\* then x: p < q if and only if p.y < q.y, or p.y = q.y and p.x < q.x.
C13_OrderYThenX ==
    /\ call.op = "lt" => (call.ret <=> BeforeYThenX(call.self, call.other))
    /\ call.op = "cmp" =>
        ((call.ret = "Less") <=> BeforeYThenX(call.self, call.other))

\* C13 (amended): coordinates are totally ordered lexicographically by x
\* then y: p < q if and only if p.x < q.x, or p.x = q.x and p.y < q.y; of
\* p < q, p = q and q < p exactly one holds, and < is transitive.
C13_OrderXThenY ==
    /\ call.op = "lt" =>
        /\ call.ret <=> BeforeXThenY(call.self, call.other)
        /\ call.ret => ~lt(call.other, call.self)
        /\ ~call.ret => (call.self = call.other \/ lt(call.other, call.self))
        /\ call.self = call.other => ~call.ret
        /\ \A r \in Points : (call.ret /\ lt(call.other, r)) => lt(call.self, r)
    /\ call.op = "cmp" =>
        /\ (call.ret = "Less") <=> BeforeXThenY(call.self, call.other)
        /\ (call.ret = "Equal") <=> (call.self = call.other)
        /\ (call.ret = "Greater") <=> BeforeXThenY(call.other, call.self)

\* (0,1) < (1,0): the smaller x decides although its y is the larger.
C13_Witness ==
    /\ call.op = "lt"
    /\ call.self = Point(0, 1)
    /\ call.other = Point(1, 0)
    /\ call.ret = TRUE

\* d divides n.
Divides(d, n) == n % d = 0

\* The least common multiple of two positive numbers, by its definition: the
\* least positive number that both divide.
Lcm(a, b) ==
    CHOOSE m \in 1 .. (a * b) :
        /\ Divides(a, m)
        /\ Divides(b, m)
        /\ \A k \in 1 .. (m - 1) : ~(Divides(a, k) /\ Divides(b, k))

\* C14: for all positive a and b of a fixed-width integer type whose least
\* common multiple is representable in that width,
\* least_common_multiple(a, b) returns the least common multiple, and no
\* intermediate result overflows (in neither build does it panic or wrap),
\* also when the product a * b is not representable.
C14_LcmWithoutOverflow ==
    (/\ call.op = "least_common_multiple"
     /\ call.a >= 1
     /\ call.b >= 1
     /\ Lcm(call.a, call.b) <= T_MAX)
        => /\ call.ret = Some(Lcm(call.a, call.b))
           /\ \A checks \in OverflowChecks :
                least_common_multiple(call.a, call.b, checks) = call.ret
           /\ (call.a \div greatest_common_divisor(call.a, call.b)) * call.b <= T_MAX

\* As in the test, b is twice a and a * b is above T::MAX: the result is b.
C14_Witness ==
    /\ call.op = "least_common_multiple"
    /\ call.a = 2 ^ (MathBits - 2)
    /\ call.b = 2 * call.a
    /\ call.a * call.b > T_MAX
    /\ call.ret = Some(call.b)

\* C15: Neighbor.next re-runs the logic of the adjacency query: for every
\* Grid and every Neighbor n, n.next(grid) equals
\* neighbor_in_direction(grid, n.direction, n.position), both absent or both
\* present with the same direction and position (and in a build where one
\* panics so does the other); the direction of a Neighbor never changes
\* along a walk.
C15_NextIsNeighborInDirection ==
    /\ call.op = "next" =>
        /\ call.ret \in {neighbor_in_direction(grid, call.self.direction,
                             call.self.position, checks) : checks \in OverflowChecks}
        /\ \A checks \in OverflowChecks :
            next(call.self, grid, checks)
                = neighbor_in_direction(grid, call.self.direction,
                                        call.self.position, checks)
        /\ call.self.direction = call.start.direction
        /\ call.ret.kind = "some" => call.ret.val.direction = call.start.direction
    /\ call.op = "neighbor_in_direction" =>
        /\ call.ret \in {next(Neighbor(call.direction, call.position), grid, checks) :
                            checks \in OverflowChecks}
        /\ \A checks \in OverflowChecks :
            neighbor_in_direction(grid, call.direction, call.position, checks)
                = next(Neighbor(call.direction, call.position), grid, checks)

\* The second step of a walk to the lower left from (2,0) reaches (0,2).
C15_Witness ==
    /\ call.op = "next"
    /\ call.start = Neighbor("LowerLeft", Point(2, 0))
    /\ call.steps = 2
    /\ call.ret = Some(Neighbor("LowerLeft", Point(0, 2)))

\* The rows after have the shape of the rows before and hold the same
\* values, but for the cell at c.
SameBut(before, after, c) ==
    /\ Len(after) = Len(before)
    /\ \A i \in 1 .. Len(before) :
        /\ Len(after[i]) = Len(before[i])
        /\ \A j \in 1 .. Len(before[i]) :
            Point(j - 1, i - 1) # c => after[i][j] = before[i][j]

\* C16: a write through get_mut or indexed assignment at a coordinate c
\* inside the dimensions leaves height(), width() and every cell but the one
\* at c as they were; get_mut at a coordinate outside the dimensions returns
\* nothing and leaves the Grid as it was; get, neighbor_in_direction,
\* neighbors, Neighbor.next and print_grid leave the Grid as it was.
C16_Frame ==
    [][/\ (call'.op \in {"get_mut", "index_mut"} /\ InDimensions(grid, call'.position)) =>
            /\ height(grid') = height(grid)
            /\ width(grid') = width(grid)
            /\ SameBut(grid, grid', call'.position)
       /\ (call'.op = "get_mut" /\ ~InDimensions(grid, call'.position)) =>
            /\ call'.ret = None
            /\ grid' = grid
       /\ call'.op \in {"get", "neighbor_in_direction", "neighbors", "next", "print_grid"} =>
            grid' = grid
      ]_vars

====
